---- MODULE Spec2Model ----
(***************************************************************************)
(* FSOP container tool (fsop_tool.py): FSOPUnpacker.unpack and             *)
(* FSOPPacker.pack as a state machine over the files they read and write.  *)
(*                                                                         *)
(* Bytes are integers 0..255, text is a sequence of Unicode code points,   *)
(* a file name is text, a blob is a sequence of bytes.                     *)
(***************************************************************************)
EXTENDS Integers, Sequences, FiniteSets, TLC

(***************************************************************************)
(* Results of operations that may raise.                                   *)
(***************************************************************************)
Ok(v) == [ok |-> TRUE, val |-> v]
Fail == [ok |-> FALSE, val |-> <<>>]

RECURSIVE Concat(_)
Concat(ss) ==
    IF ss = <<>> THEN <<>>
    ELSE IF Len(ss) = 1 THEN ss[1]
    ELSE LET h == Len(ss) \div 2
         IN  Concat(SubSeq(ss, 1, h)) \o Concat(SubSeq(ss, h + 1, Len(ss)))

EndsWith(s, suf) ==
    /\ Len(s) >= Len(suf)
    /\ SubSeq(s, Len(s) - Len(suf) + 1, Len(s)) = suf

Range(s) == {s[i] : i \in DOMAIN s}

(***************************************************************************)
(* XOR transform: bytes(b ^ 0x9C for b in data).                           *)
(***************************************************************************)
XorKey == 156

RECURSIVE BitXor(_, _)
BitXor(a, b) ==
    IF a = 0 THEN b
    ELSE IF b = 0 THEN a
    ELSE (((a % 2) + (b % 2)) % 2) + (2 * BitXor(a \div 2, b \div 2))

xor_decrypt(data) == [i \in 1..Len(data) |-> BitXor(data[i], XorKey)]

xor_encrypt(data) == [i \in 1..Len(data) |-> BitXor(data[i], XorKey)]

(***************************************************************************)
(* struct.pack('<I', n) and struct.unpack('<I', b): 4 bytes little-endian. *)
(* unpack raises struct.error unless it is handed exactly 4 bytes.         *)
(***************************************************************************)
struct_pack_I(n) ==
    << n % 256, (n \div 256) % 256, (n \div 65536) % 256, (n \div 16777216) % 256 >>

struct_unpack_I(b) ==
    IF Len(b) = 4
    THEN Ok(b[1] + (256 * b[2]) + (65536 * b[3]) + (16777216 * b[4]))
    ELSE Fail

(* data[lo:hi] with 0-based bounds: Python clamps a slice to the buffer.   *)
Slice(data, lo, hi) ==
    LET h == IF hi > Len(data) THEN Len(data) ELSE hi
    IN  IF lo >= h THEN <<>> ELSE SubSeq(data, lo + 1, h)

(***************************************************************************)
(* The codecs str.encode / bytes.decode of 'ascii', 'latin-1', 'utf-8' and *)
(* 'shift-jis' (errors='strict').                                          *)
(*                                                                         *)
(* SjisDouble is the part of the JIS X 0208 double-byte table that the     *)
(* names of the model use; single bytes follow JIS X 0201.                 *)
(***************************************************************************)
SjisDouble ==
    (<<130, 160>> :> 12354)      \* 82 A0  HIRAGANA LETTER A
 @@ (<<131, 159>> :> 913)        \* 83 9F  GREEK CAPITAL LETTER ALPHA
 @@ (<<129, 152>> :> 167)        \* 81 98  SECTION SIGN

SjisKanaFirst == 161
SjisKanaLast == 223
HalfwidthKanaBase == 65377

RECURSIVE decode_shift_jis(_)
decode_shift_jis(bs) ==
    IF \A i \in DOMAIN bs : bs[i] < 128 THEN Ok(bs)
    ELSE LET b == Head(bs) IN
        IF b < 128 \/ (b >= SjisKanaFirst /\ b <= SjisKanaLast)
        THEN LET rest == decode_shift_jis(Tail(bs))
                 cp == IF b < 128 THEN b ELSE HalfwidthKanaBase + (b - SjisKanaFirst)
             IN  IF rest.ok THEN Ok(<<cp>> \o rest.val) ELSE Fail
        ELSE IF Len(bs) >= 2 /\ <<b, bs[2]>> \in DOMAIN SjisDouble
        THEN LET rest == decode_shift_jis(Tail(Tail(bs)))
             IN  IF rest.ok THEN Ok(<<SjisDouble[<<b, bs[2]>>]>> \o rest.val) ELSE Fail
        ELSE Fail

IsCont(bs, i) == Len(bs) >= i /\ bs[i] >= 128 /\ bs[i] <= 191

RECURSIVE decode_utf_8(_)
decode_utf_8(bs) ==
    IF \A i \in DOMAIN bs : bs[i] < 128 THEN Ok(bs)
    ELSE LET b == Head(bs)
             n == IF b < 128 THEN 1
                  ELSE IF b >= 194 /\ b <= 223 /\ IsCont(bs, 2) THEN 2
                  ELSE IF b >= 224 /\ b <= 239 /\ IsCont(bs, 2) /\ IsCont(bs, 3)
                          /\ (b = 224 => bs[2] >= 160) /\ (b = 237 => bs[2] <= 159) THEN 3
                  ELSE IF b >= 240 /\ b <= 244 /\ IsCont(bs, 2) /\ IsCont(bs, 3)
                          /\ IsCont(bs, 4)
                          /\ (b = 240 => bs[2] >= 144) /\ (b = 244 => bs[2] <= 143) THEN 4
                  ELSE 0
             cp == IF n = 1 THEN b
                   ELSE IF n = 2 THEN ((b - 192) * 64) + (bs[2] - 128)
                   ELSE IF n = 3
                   THEN ((b - 224) * 4096) + ((bs[2] - 128) * 64) + (bs[3] - 128)
                   ELSE ((b - 240) * 262144) + ((bs[2] - 128) * 4096)
                            + ((bs[3] - 128) * 64) + (bs[4] - 128)
         IN  IF n = 0 THEN Fail
             ELSE LET rest == decode_utf_8(SubSeq(bs, n + 1, Len(bs)))
                  IN  IF rest.ok THEN Ok(<<cp>> \o rest.val) ELSE Fail

decode_latin_1(bs) == Ok(bs)

encode_ascii(s) == IF \A i \in DOMAIN s : s[i] < 128 THEN Ok(s) ELSE Fail

encode_latin_1(s) == IF \A i \in DOMAIN s : s[i] < 256 THEN Ok(s) ELSE Fail

IsSurrogate(cp) == cp >= 55296 /\ cp <= 57343

Utf8Char(cp) ==
    IF cp < 128 THEN <<cp>>
    ELSE IF cp < 2048 THEN <<192 + (cp \div 64), 128 + (cp % 64)>>
    ELSE IF cp < 65536
    THEN <<224 + (cp \div 4096), 128 + ((cp \div 64) % 64), 128 + (cp % 64)>>
    ELSE <<240 + (cp \div 262144), 128 + ((cp \div 4096) % 64),
           128 + ((cp \div 64) % 64), 128 + (cp % 64)>>

encode_utf_8(s) ==
    IF \E i \in DOMAIN s : IsSurrogate(s[i]) THEN Fail
    ELSE Ok(Concat([i \in DOMAIN s |-> Utf8Char(s[i])]))

(* One character under 'shift-jis'; <<>> when the codec cannot encode it.  *)
SjisChar(cp) ==
    IF cp < 128 THEN <<cp>>
    ELSE IF cp = 165 THEN <<92>>          \* YEN SIGN -> 5C
    ELSE IF cp = 8254 THEN <<126>>        \* OVERLINE -> 7E
    ELSE IF cp >= HalfwidthKanaBase
            /\ cp <= HalfwidthKanaBase + (SjisKanaLast - SjisKanaFirst)
    THEN <<SjisKanaFirst + (cp - HalfwidthKanaBase)>>
    ELSE IF \E p \in DOMAIN SjisDouble : SjisDouble[p] = cp
    THEN CHOOSE p \in DOMAIN SjisDouble : SjisDouble[p] = cp
    ELSE <<>>

encode_shift_jis(s) ==
    IF \E i \in DOMAIN s : SjisChar(s[i]) = <<>> THEN Fail
    ELSE Ok(Concat([i \in DOMAIN s |-> SjisChar(s[i])]))

(* text.encode(encoding); an unknown codec name raises LookupError.        *)
Encode(s, encoding) ==
    IF encoding = "shift-jis" THEN encode_shift_jis(s)
    ELSE IF encoding = "utf-8" THEN encode_utf_8(s)
    ELSE IF encoding = "latin-1" THEN encode_latin_1(s)
    ELSE IF encoding = "ascii" THEN encode_ascii(s)
    ELSE Fail

(***************************************************************************)
(* Text constants of the program.                                          *)
(***************************************************************************)
NUL == <<0>>
VsSuffix == <<95, 118, 115, 46, 102, 120, 99>>      \* "_vs.fxc"
PsSuffix == <<95, 112, 115, 46, 102, 120, 99>>      \* "_ps.fxc"
FxcExt == <<46, 102, 120, 99>>                      \* ".fxc" of glob("*.fxc")
Unnamed == <<117, 110, 110, 97, 109, 101, 100>>     \* "unnamed"
InvalidChars == {60, 62, 58, 34, 47, 92, 124, 63, 42}   \* <>:"/\|?*
Underscore == 95

(* str.isspace(): the characters str.strip() removes.                      *)
IsSpace(c) ==
    \/ (c >= 9 /\ c <= 13) \/ (c >= 28 /\ c <= 32) \/ c = 133 \/ c = 160
    \/ c = 5760 \/ (c >= 8192 /\ c <= 8202) \/ c = 8232 \/ c = 8233
    \/ c = 8239 \/ c = 8287 \/ c = 12288

RECURSIVE LStrip(_)
LStrip(s) == IF s # <<>> /\ IsSpace(Head(s)) THEN LStrip(Tail(s)) ELSE s

RECURSIVE RStrip(_)
RStrip(s) ==
    IF s # <<>> /\ IsSpace(s[Len(s)]) THEN RStrip(SubSeq(s, 1, Len(s) - 1)) ELSE s

NotNul(c) == c # 0

sanitize_filename(name) ==
    LET stripped == RStrip(LStrip(SelectSeq(name, NotNul)))
        replaced == [i \in DOMAIN stripped |->
                        IF stripped[i] \in InvalidChars THEN Underscore
                        ELSE stripped[i]]
    IN  IF replaced = <<>> THEN Unnamed ELSE replaced

(***************************************************************************)
(* One iteration of the loop of FSOPUnpacker.unpack: the record at the     *)
(* 0-based offset, or Fail when struct.unpack raises.                      *)
(***************************************************************************)
decode_name(name_bytes) ==
    LET sj == decode_shift_jis(name_bytes)
        u8 == decode_utf_8(name_bytes)
    IN  IF sj.ok THEN sj.val
        ELSE IF u8.ok THEN u8.val
        ELSE decode_latin_1(name_bytes).val

determine_encoding(name_raw) ==
    IF encode_shift_jis(name_raw).ok THEN "shift-jis"
    ELSE IF encode_utf_8(name_raw).ok THEN "utf-8"
    ELSE "latin-1"

read_record(data, offset) ==
    LET name_length == data[offset + 1]
        o1 == offset + 1
        name_raw == decode_name(Slice(data, o1, o1 + name_length))
        o2 == o1 + name_length
        vs_size == struct_unpack_I(Slice(data, o2, o2 + 4))
        o3 == o2 + 4
        o4 == o3 + vs_size.val
        ps_size == struct_unpack_I(Slice(data, o4, o4 + 4))
        o5 == o4 + 4
    IN  IF ~vs_size.ok THEN Fail
        ELSE IF ~ps_size.ok THEN Fail
        ELSE Ok([name_raw |-> name_raw,
                 encoding |-> determine_encoding(name_raw),
                 vs_data |-> xor_decrypt(Slice(data, o3, o3 + vs_size.val)),
                 ps_data |-> xor_decrypt(Slice(data, o5, o5 + ps_size.val)),
                 offset |-> o5 + ps_size.val])

shader_info(name_raw, encoding) ==
    [name |-> name_raw,
     encoding |-> encoding,
     vertex_shader_file |-> sanitize_filename(name_raw) \o VsSuffix,
     pixel_shader_file |-> sanitize_filename(name_raw) \o PsSuffix]

(* open(path, 'wb').write(data) in a directory d: name -> bytes.           *)
WriteFile(d, name, data) == (name :> data) @@ d

(* Faulty variant of detect_encoding: pure ASCII tagged utf-8.  C10 fails  *)
(* with it.                                                                *)
detect_encoding_AsciiAsUtf8(text) ==
    LET sj == encode_shift_jis(text)
        back == decode_shift_jis(sj.val)
        u8 == encode_utf_8(text)
    IN  IF encode_ascii(text).ok THEN "utf-8"
        ELSE IF sj.ok /\ back.ok /\ back.val = text
        THEN IF u8.ok /\ Len(u8.val) <= Len(sj.val) THEN "utf-8" ELSE "shift-jis"
        ELSE IF u8.ok THEN "utf-8"
        ELSE "latin-1"

(***************************************************************************)
(* FSOPPacker.detect_encoding.                                             *)
(***************************************************************************)
detect_encoding(text) ==
    LET sj == encode_shift_jis(text)
        back == decode_shift_jis(sj.val)
        u8 == encode_utf_8(text)
    IN  IF encode_ascii(text).ok THEN "ascii"
        ELSE IF sj.ok /\ back.ok /\ back.val = text
        THEN IF u8.ok /\ Len(u8.val) <= Len(sj.val) THEN "utf-8" ELSE "shift-jis"
        ELSE IF u8.ok THEN "utf-8"
        ELSE "latin-1"

(***************************************************************************)
(* The reconciliation step of FSOPPacker.pack.                             *)
(***************************************************************************)
all_fxc_files(d) == {f \in DOMAIN d : EndsWith(f, FxcExt)}

known_files(shaders) ==
    {shaders[i].vertex_shader_file :
        i \in {j \in DOMAIN shaders : "vertex_shader_file" \in DOMAIN shaders[j]}}
    \cup
    {shaders[i].pixel_shader_file :
        i \in {j \in DOMAIN shaders : "pixel_shader_file" \in DOMAIN shaders[j]}}

terminated(name) == IF EndsWith(name, NUL) THEN name ELSE name \o NUL

new_shader(fxc_file) ==
    LET base_name == SubSeq(fxc_file, 1, Len(fxc_file) - Len(VsSuffix))
    IN  [name |-> terminated(base_name),
         encoding |-> detect_encoding(base_name),
         vertex_shader_file |-> fxc_file,
         pixel_shader_file |-> base_name \o PsSuffix]

(* Faulty variant of find_new_shaders: the pixel file is not checked       *)
(* against known_files.  C9 fails with it.                                 *)
RECURSIVE find_new_shaders_AnyPixel(_, _, _, _, _)
find_new_shaders_AnyPixel(order, all, known, processed_files, new_shaders) ==
    IF order = <<>> THEN new_shaders
    ELSE LET fxc_file == Head(order)
             info == new_shader(fxc_file)
         IN  IF fxc_file \in known \/ fxc_file \in processed_files
             THEN find_new_shaders_AnyPixel(Tail(order), all, known,
                                            processed_files, new_shaders)
             ELSE IF /\ EndsWith(fxc_file, VsSuffix)
                     /\ info.pixel_shader_file \in all
             THEN find_new_shaders_AnyPixel(Tail(order), all, known,
                      processed_files \cup {fxc_file, info.pixel_shader_file},
                      Append(new_shaders, info))
             ELSE find_new_shaders_AnyPixel(Tail(order), all, known,
                                            processed_files, new_shaders)

(* The loop "for fxc_file in all_fxc_files", the set iterated in `order`.  *)
RECURSIVE find_new_shaders(_, _, _, _, _)
find_new_shaders(order, all, known, processed_files, new_shaders) ==
    IF order = <<>> THEN new_shaders
    ELSE LET fxc_file == Head(order)
             info == new_shader(fxc_file)
         IN  IF fxc_file \in known \/ fxc_file \in processed_files
             THEN find_new_shaders(Tail(order), all, known, processed_files,
                                   new_shaders)
             ELSE IF /\ EndsWith(fxc_file, VsSuffix)
                     /\ info.pixel_shader_file \in all
                     /\ info.pixel_shader_file \notin known
             THEN find_new_shaders(Tail(order), all, known,
                      processed_files \cup {fxc_file, info.pixel_shader_file},
                      Append(new_shaders, info))
             ELSE find_new_shaders(Tail(order), all, known, processed_files,
                                   new_shaders)

(* Every order in which a set can be iterated.                             *)
RECURSIVE Orders(_)
Orders(S) ==
    IF S = {} THEN {<<>>}
    ELSE UNION {{<<e>> \o o : o \in Orders(S \ {e})} : e \in S}

(***************************************************************************)
(* One iteration of the encode loop of FSOPPacker.pack.                    *)
(***************************************************************************)
MaxByte == 255

skipped(info, d) ==
    IF "name" \notin DOMAIN info THEN TRUE
    ELSE IF "vertex_shader_file" \notin DOMAIN info THEN TRUE
    ELSE IF "pixel_shader_file" \notin DOMAIN info THEN TRUE
    ELSE ~(info.vertex_shader_file \in DOMAIN d /\ info.pixel_shader_file \in DOMAIN d)

encode_name(info) ==
    LET shader_name == terminated(info.name)
        encoding == IF "encoding" \in DOMAIN info THEN info.encoding ELSE "shift-jis"
        first == Encode(shader_name, encoding)
        sj == encode_shift_jis(shader_name)
        u8 == encode_utf_8(shader_name)
    IN  IF first.ok THEN first
        ELSE IF sj.ok THEN sj
        ELSE IF u8.ok THEN u8
        ELSE encode_latin_1(shader_name)

(* bytearray.append(len(name_bytes)) raises ValueError above 255.          *)
raises(info) ==
    LET name_bytes == encode_name(info)
    IN  ~name_bytes.ok \/ Len(name_bytes.val) > MaxByte

encode_record(info, d) ==
    LET name_bytes == encode_name(info).val
        vs_data_encrypted == xor_encrypt(d[info.vertex_shader_file])
        ps_data_encrypted == xor_encrypt(d[info.pixel_shader_file])
    IN  <<Len(name_bytes)>> \o name_bytes
        \o struct_pack_I(Len(vs_data_encrypted)) \o vs_data_encrypted
        \o struct_pack_I(Len(ps_data_encrypted)) \o ps_data_encrypted

(***************************************************************************)
(* State: the files the two operations share, and the position of the      *)
(* operation in progress.                                                  *)
(*   fsop      the container file (read by unpack, written by pack)        *)
(*   dir       the .fxc and other files of the directory: name -> bytes    *)
(*   metadata  metadata.json: its 'shaders' list                           *)
(*   pc        "idle", "unpack" (in the decode loop), "pack" (in the       *)
(*             encode loop)                                                *)
(*   u         locals of unpack: data, offset, self.shaders                *)
(*   p         locals of pack: metadata['shaders'], loop index i,          *)
(*             output_data, packed_count                                   *)
(*   hist      history: one record per operation started, with the files   *)
(*             as they were when it started and how it ended               *)
(***************************************************************************)
VARIABLES fsop, dir, metadata, pc, u, p, hist

vars == <<fsop, dir, metadata, pc, u, p, hist>>

NoFile == [exists |-> FALSE, data |-> <<>>]
File(data) == [exists |-> TRUE, data |-> data]
NoIndex == [exists |-> FALSE, shaders |-> <<>>]
Index(shaders) == [exists |-> TRUE, shaders |-> shaders]
EmptyDir == <<>>

NoUnpack == [data |-> <<>>, offset |-> 0, shaders |-> <<>>]
NoPack == [shaders |-> <<>>, i |-> 0, output_data |-> <<>>, packed_count |-> 0]

Files == [fsop |-> fsop, dir |-> dir, metadata |-> metadata]

Started(op) ==
    [op |-> op, status |-> "running", pre |-> Files,
     new_shaders |-> <<>>, saved |-> FALSE, packed_count |-> 0]

Cur == hist[Len(hist)]

Ended(status) == [hist EXCEPT ![Len(hist)].status = status]

(***************************************************************************)
(* Bounds of the model.                                                    *)
(***************************************************************************)
MaxOps == 2          \* operations run one after the other
MaxRecords == 2      \* records of an input container
MaxEntries == 2      \* entries of an input index
MaxDirFiles == 4     \* files of an input directory

(***************************************************************************)
(* FSOPUnpacker.unpack                                                     *)
(***************************************************************************)
(* open(self.fsop_path, 'rb') raises FileNotFoundError.                    *)
UnpackNoFile ==
    /\ pc = "idle" /\ Len(hist) < MaxOps
    /\ ~fsop.exists
    /\ hist' = Append(hist, [Started("unpack") EXCEPT !.status = "error"])
    /\ UNCHANGED <<fsop, dir, metadata, pc, u, p>>

UnpackStart ==
    /\ pc = "idle" /\ Len(hist) < MaxOps
    /\ fsop.exists
    /\ pc' = "unpack"
    /\ u' = [data |-> fsop.data, offset |-> 0, shaders |-> <<>>]
    /\ hist' = Append(hist, Started("unpack"))
    /\ UNCHANGED <<fsop, dir, metadata, p>>

UnpackRecord ==
    /\ pc = "unpack"
    /\ u.offset < Len(u.data)
    /\ LET r == read_record(u.data, u.offset)
           info == shader_info(r.val.name_raw, r.val.encoding)
       IN  /\ r.ok
           /\ u' = [u EXCEPT !.offset = r.val.offset,
                             !.shaders = Append(u.shaders, info)]
           /\ dir' = WriteFile(WriteFile(dir, info.vertex_shader_file, r.val.vs_data),
                               info.pixel_shader_file, r.val.ps_data)
    /\ UNCHANGED <<fsop, metadata, pc, p, hist>>

(* struct.unpack raises struct.error: the exception leaves unpack.         *)
UnpackRaise ==
    /\ pc = "unpack"
    /\ u.offset < Len(u.data)
    /\ ~read_record(u.data, u.offset).ok
    /\ pc' = "idle"
    /\ u' = NoUnpack
    /\ hist' = Ended("error")
    /\ UNCHANGED <<fsop, dir, metadata, p>>

UnpackFinish ==
    /\ pc = "unpack"
    /\ ~(u.offset < Len(u.data))
    /\ metadata' = Index(u.shaders)
    /\ pc' = "idle"
    /\ u' = NoUnpack
    /\ hist' = Ended("ok")
    /\ UNCHANGED <<fsop, dir, p>>

(***************************************************************************)
(* FSOPPacker.pack                                                         *)
(***************************************************************************)
PackNoIndex ==
    /\ pc = "idle" /\ Len(hist) < MaxOps
    /\ ~metadata.exists
    /\ hist' = Append(hist, [Started("pack") EXCEPT !.status = "noindex"])
    /\ UNCHANGED <<fsop, dir, metadata, pc, u, p>>

(* Faulty variant of PackReconcile: the new entries are put before the    *)
(* persisted ones.  C4 fails with it.                                      *)
PackReconcile_NewFirst ==
    /\ pc = "idle" /\ Len(hist) < MaxOps
    /\ metadata.exists
    /\ \E order \in Orders(all_fxc_files(dir)) :
         LET new_shaders == find_new_shaders(order, all_fxc_files(dir),
                                known_files(metadata.shaders), {}, <<>>)
             shaders == new_shaders \o metadata.shaders
         IN  /\ metadata' = IF new_shaders # <<>> THEN Index(shaders) ELSE metadata
             /\ p' = [shaders |-> shaders, i |-> 0, output_data |-> <<>>,
                      packed_count |-> 0]
             /\ hist' = Append(hist, [Started("pack") EXCEPT
                                         !.new_shaders = new_shaders,
                                         !.saved = (new_shaders # <<>>)])
    /\ pc' = "pack"
    /\ UNCHANGED <<fsop, dir, u>>

(* Faulty variant of PackReconcile: the extended index is not saved.  C8   *)
(* fails with it.                                                          *)
PackReconcile_NotSaved ==
    /\ pc = "idle" /\ Len(hist) < MaxOps
    /\ metadata.exists
    /\ \E order \in Orders(all_fxc_files(dir)) :
         LET new_shaders == find_new_shaders(order, all_fxc_files(dir),
                                known_files(metadata.shaders), {}, <<>>)
             shaders == metadata.shaders \o new_shaders
         IN  /\ p' = [shaders |-> shaders, i |-> 0, output_data |-> <<>>,
                      packed_count |-> 0]
             /\ hist' = Append(hist, [Started("pack") EXCEPT
                                         !.new_shaders = new_shaders])
    /\ pc' = "pack"
    /\ UNCHANGED <<fsop, dir, metadata, u>>

(* Load the index, find the new pairs, extend and save the index.          *)
PackReconcile ==
    /\ pc = "idle" /\ Len(hist) < MaxOps
    /\ metadata.exists
    /\ \E order \in Orders(all_fxc_files(dir)) :
         LET new_shaders == find_new_shaders(order, all_fxc_files(dir),
                                known_files(metadata.shaders), {}, <<>>)
             shaders == metadata.shaders \o new_shaders
         IN  /\ metadata' = IF new_shaders # <<>> THEN Index(shaders) ELSE metadata
             /\ p' = [shaders |-> shaders, i |-> 0, output_data |-> <<>>,
                      packed_count |-> 0]
             /\ hist' = Append(hist, [Started("pack") EXCEPT
                                         !.new_shaders = new_shaders,
                                         !.saved = (new_shaders # <<>>)])
    /\ pc' = "pack"
    /\ UNCHANGED <<fsop, dir, u>>

(* Faulty variant of PackSkip: a skipped entry is counted as packed.  C6   *)
(* fails with it.                                                          *)
PackSkip_Counted ==
    /\ pc = "pack"
    /\ p.i < Len(p.shaders)
    /\ skipped(p.shaders[p.i + 1], dir)
    /\ p' = [p EXCEPT !.i = p.i + 1, !.packed_count = p.packed_count + 1]
    /\ UNCHANGED <<fsop, dir, metadata, pc, u, hist>>

PackSkip ==
    /\ pc = "pack"
    /\ p.i < Len(p.shaders)
    /\ skipped(p.shaders[p.i + 1], dir)
    /\ p' = [p EXCEPT !.i = p.i + 1]
    /\ UNCHANGED <<fsop, dir, metadata, pc, u, hist>>

(* Faulty variant of PackEncode: the record is put before the records     *)
(* already encoded.  C3 fails with it.                                     *)
PackEncode_Prepend ==
    /\ pc = "pack"
    /\ p.i < Len(p.shaders)
    /\ ~skipped(p.shaders[p.i + 1], dir)
    /\ ~raises(p.shaders[p.i + 1])
    /\ p' = [p EXCEPT !.i = p.i + 1,
                      !.output_data = encode_record(p.shaders[p.i + 1], dir)
                                        \o p.output_data,
                      !.packed_count = p.packed_count + 1]
    /\ UNCHANGED <<fsop, dir, metadata, pc, u, hist>>

PackEncode ==
    /\ pc = "pack"
    /\ p.i < Len(p.shaders)
    /\ ~skipped(p.shaders[p.i + 1], dir)
    /\ ~raises(p.shaders[p.i + 1])
    /\ p' = [p EXCEPT !.i = p.i + 1,
                      !.output_data = p.output_data
                                        \o encode_record(p.shaders[p.i + 1], dir),
                      !.packed_count = p.packed_count + 1]
    /\ UNCHANGED <<fsop, dir, metadata, pc, u, hist>>

(* Faulty variant of PackRaise: the records encoded so far are written.   *)
(* C7 fails with it.                                                       *)
PackRaise_WritesPartial ==
    /\ pc = "pack"
    /\ p.i < Len(p.shaders)
    /\ ~skipped(p.shaders[p.i + 1], dir)
    /\ raises(p.shaders[p.i + 1])
    /\ fsop' = File(p.output_data)
    /\ pc' = "idle"
    /\ p' = NoPack
    /\ hist' = [Ended("error") EXCEPT ![Len(hist)].packed_count = p.packed_count]
    /\ UNCHANGED <<dir, metadata, u>>

PackRaise ==
    /\ pc = "pack"
    /\ p.i < Len(p.shaders)
    /\ ~skipped(p.shaders[p.i + 1], dir)
    /\ raises(p.shaders[p.i + 1])
    /\ pc' = "idle"
    /\ p' = NoPack
    /\ hist' = [Ended("error") EXCEPT ![Len(hist)].packed_count = p.packed_count]
    /\ UNCHANGED <<fsop, dir, metadata, u>>

PackWrite ==
    /\ pc = "pack"
    /\ p.i = Len(p.shaders)
    /\ fsop' = File(p.output_data)
    /\ pc' = "idle"
    /\ p' = NoPack
    /\ hist' = [Ended("ok") EXCEPT ![Len(hist)].packed_count = p.packed_count]
    /\ UNCHANGED <<dir, metadata, u>>

Next ==
    \/ UnpackNoFile \/ UnpackStart \/ UnpackRecord \/ UnpackRaise \/ UnpackFinish
    \/ PackNoIndex \/ PackReconcile \/ PackSkip \/ PackEncode \/ PackRaise
    \/ PackWrite

(***************************************************************************)
(* Inputs.  A run starts from one of three kinds of file-system state:     *)
(*   InitContainer  a container file (well formed or truncated), an empty  *)
(*                  directory                                              *)
(*   InitIndex      a directory holding an index (as unpack or a user's    *)
(*                  edit left it) and some of the blob files it names      *)
(*   InitReconcile  a directory holding an index and blob files the index  *)
(*                  may not know                                           *)
(***************************************************************************)
(* One record of the container format, as unpack reads it.                 *)
Record(name_bytes, vs_data, ps_data) ==
    <<Len(name_bytes)>> \o name_bytes
    \o struct_pack_I(Len(vs_data)) \o xor_encrypt(vs_data)
    \o struct_pack_I(Len(ps_data)) \o xor_encrypt(ps_data)

RecordNames ==
    { <<65, 0>>,            \* "A\0"
      <<65>>,               \* "A", no terminating null
      <<47, 0>>,            \* "/\0": file name "_"
      <<95, 0>>,            \* "_\0": file name "_" too
      <<130, 160, 0>>,      \* 82 A0: shift-jis HIRAGANA A
      <<206, 145, 0>>,      \* CE 91: utf-8 GREEK ALPHA, not shift-jis
      <<255, 0>>,           \* FF: neither shift-jis nor utf-8
      <<>> }                \* empty name

BlobPairs ==
    { << <<>>, <<81, 77, 82>> >>,
      << <<81>>, <<>> >> }

Records == {Record(n, b[1], b[2]) : n \in RecordNames, b \in BlobPairs}

Containers ==
    UNION {{Concat(rs) : rs \in [1..n -> Records]} : n \in 0..MaxRecords}

(* Every container and every truncation of one.                            *)
Buffers == UNION {{SubSeq(c, 1, k) : k \in 0..Len(c)} : c \in Containers}

InitContainer ==
    /\ fsop \in {File(b) : b \in Buffers}
    /\ dir = EmptyDir
    /\ metadata = NoIndex

Repeat(c, n) == [i \in 1..n |-> c]

FileOf(base, suffix) == base \o suffix

BaseA == <<65>>
BaseB == <<66>>
A_vs == FileOf(BaseA, VsSuffix)
A_ps == FileOf(BaseA, PsSuffix)
B_vs == FileOf(BaseB, VsSuffix)
B_ps == FileOf(BaseB, PsSuffix)

(* The bytes of an input blob file: different for different files.         *)
BlobOf(f) ==
    IF EndsWith(f, VsSuffix) THEN <<81, Len(f) % 256>>
    ELSE IF f = A_ps THEN <<>>
    ELSE <<77, 82, Len(f) % 256>>

DirOf(S) == [f \in S |-> BlobOf(f)]

IndexEntries ==
    { [name |-> <<65, 0>>, encoding |-> "shift-jis",
       vertex_shader_file |-> A_vs, pixel_shader_file |-> A_ps],
      [name |-> <<65>>, encoding |-> "utf-8",
       vertex_shader_file |-> A_vs, pixel_shader_file |-> A_ps],
      [name |-> <<233, 0>>, encoding |-> "utf-8",
       vertex_shader_file |-> B_vs, pixel_shader_file |-> B_ps],
      [name |-> <<233, 0>>, encoding |-> "latin-1",
       vertex_shader_file |-> B_vs, pixel_shader_file |-> B_ps],
      [name |-> <<233, 0>>, encoding |-> "shift-jis",
       vertex_shader_file |-> B_vs, pixel_shader_file |-> B_ps],
      [name |-> Repeat(65, MaxByte) \o NUL, encoding |-> "utf-8",
       vertex_shader_file |-> A_vs, pixel_shader_file |-> A_ps],
      [name |-> Repeat(65, MaxByte - 1) \o NUL,
       vertex_shader_file |-> B_vs, pixel_shader_file |-> B_ps],
      [encoding |-> "utf-8",
       vertex_shader_file |-> A_vs, pixel_shader_file |-> A_ps],
      [name |-> <<66, 0>>, encoding |-> "utf-8"] }

IndexLists == UNION {[1..n -> IndexEntries] : n \in 0..MaxEntries}

InitIndex ==
    /\ fsop = NoFile
    /\ metadata \in {Index(l) : l \in IndexLists}
    /\ dir \in {DirOf(S) : S \in SUBSET {A_vs, A_ps, B_vs, B_ps}}

ReconcileBases ==
    { BaseB,            \* "B": ascii
      <<12354>>,        \* HIRAGANA A: 2 bytes shift-jis, 3 bytes utf-8
      <<167>>,          \* SECTION SIGN: 2 bytes shift-jis, 2 bytes utf-8
      <<233>>,          \* E ACUTE: not in shift-jis
      <<165>> }         \* YEN SIGN: shift-jis 5C decodes to a backslash

ReconcileFiles ==
    {FileOf(b, VsSuffix) : b \in ReconcileBases}
    \cup {FileOf(b, PsSuffix) : b \in ReconcileBases}
    \cup { <<110, 111, 116, 101, 115, 46, 116, 120, 116>> }   \* "notes.txt"

ReconcileIndexes ==
    { <<>>,
      << [name |-> <<66, 0>>, encoding |-> "shift-jis",
          vertex_shader_file |-> B_vs, pixel_shader_file |-> A_ps] >>,
      << [name |-> <<66, 0>>, encoding |-> "shift-jis",
          vertex_shader_file |-> A_vs, pixel_shader_file |-> B_ps] >> }

InitReconcile ==
    /\ fsop = NoFile
    /\ metadata \in {Index(l) : l \in ReconcileIndexes}
    /\ dir \in {DirOf(S) : S \in {T \in SUBSET ReconcileFiles :
                                      Cardinality(T) <= MaxDirFiles}}

Init ==
    /\ InitContainer \/ InitIndex \/ InitReconcile
    /\ pc = "idle"
    /\ u = NoUnpack
    /\ p = NoPack
    /\ hist = <<>>

Spec == Init /\ [][Next]_vars

(***************************************************************************)
(* Vocabulary of the properties.                                           *)
(***************************************************************************)
Idle == pc = "idle"

(* The operation hist[k] has run to its end with this result.              *)
Ran(k, op, status) ==
    /\ Len(hist) >= k
    /\ hist[k].op = op
    /\ hist[k].status = status

(* The last operation started has just ended.                              *)
JustRan(op, status) == Idle /\ Len(hist) >= 1 /\ Ran(Len(hist), op, status)

(* A buffer that is an exact concatenation of records.                     *)
RECURSIVE WellFormed(_)
WellFormed(b) ==
    IF b = <<>> THEN TRUE
    ELSE LET n == b[1] IN
         IF Len(b) < 1 + n + 4 THEN FALSE
         ELSE LET vs == b[n + 2] + (256 * b[n + 3]) + (65536 * b[n + 4])
                            + (16777216 * b[n + 5])
              IN  IF Len(b) < 1 + n + 4 + vs + 4 THEN FALSE
                  ELSE LET q == 1 + n + 4 + vs
                           ps == b[q + 1] + (256 * b[q + 2]) + (65536 * b[q + 3])
                                     + (16777216 * b[q + 4])
                       IN  IF Len(b) < q + 4 + ps THEN FALSE
                           ELSE WellFormed(SubSeq(b, q + 4 + ps + 1, Len(b)))

(* An index entry with all its fields whose two blob files are in d.       *)
Complete(e) ==
    /\ "name" \in DOMAIN e
    /\ "vertex_shader_file" \in DOMAIN e
    /\ "pixel_shader_file" \in DOMAIN e

Packable(e, d) ==
    IF Complete(e)
    THEN e.vertex_shader_file \in DOMAIN d /\ e.pixel_shader_file \in DOMAIN d
    ELSE FALSE

MissingBlob(e, d) == Complete(e) /\ ~Packable(e, d)

PackedEntries(l, d) == {i \in DOMAIN l : Packable(l[i], d)}

NameTooLong(e) == Len(encode_name(e).val) > MaxByte

(* The records of the packable entries among the first n of l, in order.   *)
RecordsOf(l, d, n) ==
    Concat([i \in 1..n |-> IF Packable(l[i], d) THEN encode_record(l[i], d) ELSE <<>>])

(***************************************************************************)
(* C1: for every well-formed container B, unpack of B followed by pack of  *)
(* the resulting directory, with no edit in between, writes a container    *)
(* byte-identical to B.                                                    *)
(***************************************************************************)
C1_UnpackPackIdentical ==
    ( /\ Len(hist) = 2 /\ Idle
      /\ Ran(1, "unpack", "ok")
      /\ hist[2].op = "pack"
      /\ hist[1].pre.dir = EmptyDir
      /\ WellFormed(hist[1].pre.fsop.data) )
    => ( /\ hist[2].status = "ok"
         /\ fsop = File(hist[1].pre.fsop.data) )

(***************************************************************************)
(* C2: for any valid ordered entry list (every name null-terminated and    *)
(* encodable to at most 255 bytes under its tag) whose blob files are      *)
(* present, pack followed by unpack of the produced container yields an    *)
(* index with the same number of entries, in the same order, with the same *)
(* names, and blob files whose bytes are those that were packed.           *)
(***************************************************************************)
ValidEntry(e, d) ==
    IF Packable(e, d)
    THEN LET tag == IF "encoding" \in DOMAIN e THEN e.encoding ELSE "shift-jis"
             bytes == Encode(e.name, tag)
         IN  /\ EndsWith(e.name, NUL)
             /\ bytes.ok
             /\ Len(bytes.val) <= MaxByte
    ELSE FALSE

C2_PackUnpackSameEntries ==
    ( /\ Len(hist) = 2 /\ Idle
      /\ Ran(1, "pack", "ok")
      /\ Ran(2, "unpack", "ok")
      /\ \A i \in DOMAIN hist[2].pre.metadata.shaders :
            ValidEntry(hist[2].pre.metadata.shaders[i], hist[1].pre.dir) )
    => LET packed == hist[2].pre.metadata.shaders
           blobs == hist[1].pre.dir
           got == metadata.shaders
       IN  /\ Len(got) = Len(packed)
           /\ \A i \in DOMAIN packed :
                 IF i \in DOMAIN got
                 THEN /\ got[i].name = packed[i].name
                      /\ dir[got[i].vertex_shader_file]
                            = blobs[packed[i].vertex_shader_file]
                      /\ dir[got[i].pixel_shader_file]
                            = blobs[packed[i].pixel_shader_file]
                 ELSE FALSE

(***************************************************************************)
(* C3: the buffer pack writes is exactly the concatenation of the encoded  *)
(* records of the entries that were not skipped, in the order of the       *)
(* reconciled index: while the loop runs output_data holds the records of  *)
(* the packed entries among the first i, in index order, and nothing else; *)
(* the container written holds those of the whole index.                   *)
(***************************************************************************)
C3_OutputIsRecordsInOrder ==
    /\ pc = "pack" => p.output_data = RecordsOf(metadata.shaders, dir, p.i)
    /\ JustRan("pack", "ok")
          => fsop = File(RecordsOf(metadata.shaders, dir, Len(metadata.shaders)))

C3_Witness ==
    /\ JustRan("pack", "ok")
    /\ Cur.packed_count = 2
    /\ Len(metadata.shaders) = 2
    /\ encode_record(metadata.shaders[1], dir) # encode_record(metadata.shaders[2], dir)

(***************************************************************************)
(* C4: reconciliation never reorders, removes or modifies a persisted      *)
(* entry: the updated list is the persisted list followed by the new       *)
(* entries, and the index file is rewritten only when a new pair is found. *)
(***************************************************************************)
C4_PersistedPrefixKept ==
    pc = "pack" =>
        LET persisted == Cur.pre.metadata.shaders IN
        /\ Len(p.shaders) = Len(persisted) + Len(Cur.new_shaders)
        /\ SubSeq(p.shaders, 1, Len(persisted)) = persisted
        /\ SubSeq(p.shaders, Len(persisted) + 1, Len(p.shaders)) = Cur.new_shaders
        /\ metadata = Index(p.shaders)
        /\ Cur.new_shaders = <<>> => (~Cur.saved /\ metadata = Cur.pre.metadata)

C4_Witness ==
    /\ pc = "pack"
    /\ Len(Cur.pre.metadata.shaders) = 2
    /\ Cur.pre.metadata.shaders[1] # Cur.pre.metadata.shaders[2]
    /\ Len(Cur.new_shaders) = 1

(***************************************************************************)
(* C5: decoding a buffer whose length is not an exact sum of record        *)
(* lengths aborts the whole unpack: no index is persisted and the          *)
(* operation does not report success.                                      *)
(***************************************************************************)
C5_MalformedAborts ==
    ( /\ Idle /\ Len(hist) >= 1
      /\ Cur.op = "unpack"
      /\ Cur.pre.fsop.exists
      /\ ~WellFormed(Cur.pre.fsop.data) )
    => ( /\ Cur.status = "error"
         /\ metadata = Cur.pre.metadata )

(***************************************************************************)
(* C6: an entry whose vertex or pixel blob file is absent is skipped: no   *)
(* bytes are emitted for it, it is not counted, every other entry whose    *)
(* files exist is still encoded, and pack completes by writing the         *)
(* container.  A pack ends in an error only when an entry that is not      *)
(* skipped has an over-long name; otherwise it writes the container and    *)
(* counts exactly the entries whose files exist.  An index of one entry    *)
(* with a missing blob file: 0 packed, an empty container.                 *)
(***************************************************************************)
C6_MissingBlobSkipped ==
    /\ JustRan("pack", "error")
          => \E i \in PackedEntries(metadata.shaders, dir) :
                NameTooLong(metadata.shaders[i])
    /\ JustRan("pack", "ok")
          => /\ fsop.exists
             /\ Cur.packed_count = Cardinality(PackedEntries(metadata.shaders, dir))
             /\ ( /\ Len(metadata.shaders) = 1
                  /\ MissingBlob(metadata.shaders[1], dir) )
                => (Cur.packed_count = 0 /\ fsop.data = <<>>)
    /\ ( /\ pc = "pack" /\ p.i >= 1
         /\ MissingBlob(p.shaders[p.i], dir)
         /\ \A j \in 1..(p.i - 1) : ~Packable(p.shaders[j], dir) )
       => (p.output_data = <<>> /\ p.packed_count = 0)

C6_Witness ==
    /\ JustRan("pack", "ok")
    /\ Len(metadata.shaders) = 2
    /\ MissingBlob(metadata.shaders[1], dir)
    /\ metadata.shaders[1].vertex_shader_file \notin DOMAIN dir
    /\ metadata.shaders[1].pixel_shader_file \in DOMAIN dir
    /\ Cur.packed_count = 1
    /\ fsop.data # <<>>

(***************************************************************************)
(* C7: if the name of an entry that pack encodes is, once null-terminated  *)
(* and encoded, longer than 255 bytes, pack fails and writes no container, *)
(* not even the records of the entries encoded before it.                  *)
(***************************************************************************)
C7_NameTooLongWritesNothing ==
    ( /\ Idle /\ Len(hist) >= 1
      /\ Cur.op = "pack" /\ Cur.status # "noindex"
      /\ \E i \in PackedEntries(metadata.shaders, dir) :
            NameTooLong(metadata.shaders[i]) )
    => ( /\ Cur.status = "error"
         /\ fsop = Cur.pre.fsop )

C7_Witness ==
    /\ JustRan("pack", "error")
    /\ Cur.packed_count = 1
    /\ NameTooLong(metadata.shaders[2])
    /\ ~fsop.exists

(***************************************************************************)
(* Vocabulary of the reconciler's properties: the inputs of the            *)
(* reconciliation that the pack in progress ran.                           *)
(***************************************************************************)
Available == {f \in DOMAIN Cur.pre.dir : EndsWith(f, FxcExt)}

Persisted == Cur.pre.metadata.shaders

(* Some persisted entry references the blob-file name f.                   *)
IsReferenced(f) ==
    \E i \in DOMAIN Persisted :
        \/ IF "vertex_shader_file" \in DOMAIN Persisted[i]
           THEN Persisted[i].vertex_shader_file = f ELSE FALSE
        \/ IF "pixel_shader_file" \in DOMAIN Persisted[i]
           THEN Persisted[i].pixel_shader_file = f ELSE FALSE

(* The base names N with N_vs.fxc among the available names.               *)
Bases == {SubSeq(f, 1, Len(f) - Len(VsSuffix)) : f \in {g \in Available : EndsWith(g, VsSuffix)}}

(* Both files of N are available and neither is referenced.                *)
NewPair(N) ==
    /\ (N \o VsSuffix) \in Available /\ (N \o PsSuffix) \in Available
    /\ ~IsReferenced(N \o VsSuffix) /\ ~IsReferenced(N \o PsSuffix)

(***************************************************************************)
(* C8: reconciliation is repeatable: on the same persisted list and the    *)
(* same available names every run finds the same new entries, whatever     *)
(* the order in which it visits the names; on an index that already        *)
(* references every available pair it appends nothing, in particular in a  *)
(* pack that follows a pack, and in a pack that follows an unpack into a   *)
(* directory that held no pair.                                            *)
(***************************************************************************)
C8_ReconcileRepeatable ==
    pc = "pack" =>
        /\ \A order \in Orders(Available) :
              Range(find_new_shaders(order, Available, known_files(Persisted), {}, <<>>))
                  = Range(Cur.new_shaders)
        /\ (\A N \in Bases : ~NewPair(N)) => Cur.new_shaders = <<>>
        /\ ( /\ Len(hist) >= 2
             /\ hist[Len(hist) - 1].op = "pack"
             /\ hist[Len(hist) - 1].status \in {"ok", "error"} )
           => Cur.new_shaders = <<>>
        /\ ( /\ Len(hist) >= 2
             /\ Ran(Len(hist) - 1, "unpack", "ok")
             /\ \A f \in DOMAIN hist[Len(hist) - 1].pre.dir : ~EndsWith(f, FxcExt) )
           => Cur.new_shaders = <<>>

C8_Witness ==
    /\ pc = "pack"
    /\ Len(hist) = 2
    /\ hist[1].op = "pack"
    /\ Len(hist[1].new_shaders) = 2
    /\ Cur.new_shaders = <<>>
    /\ Cardinality(Available) = 4

(***************************************************************************)
(* C9: the reconciler appends a new entry for base name N if and only if   *)
(* both N_vs.fxc and N_ps.fxc are available and neither is referenced by   *)
(* a persisted entry; each such pair yields exactly one entry, named N     *)
(* followed by one terminating null, referencing those two files; a file   *)
(* without an unreferenced partner yields no entry.                        *)
(***************************************************************************)
C9_NewEntryIffUnknownPair ==
    pc = "pack" =>
        LET new == Cur.new_shaders IN
        /\ \A i \in DOMAIN new :
              \E N \in Bases :
                  /\ NewPair(N)
                  /\ new[i].name = N \o NUL
                  /\ new[i].vertex_shader_file = N \o VsSuffix
                  /\ new[i].pixel_shader_file = N \o PsSuffix
        /\ \A N \in Bases :
              NewPair(N) =>
                  Cardinality({i \in DOMAIN new :
                                  new[i].vertex_shader_file = N \o VsSuffix}) = 1

C9_Witness ==
    /\ pc = "pack"
    /\ Len(Cur.new_shaders) = 1
    /\ Persisted # <<>>
    /\ \E N \in Bases : (N \o PsSuffix) \in Available /\ ~NewPair(N)

(***************************************************************************)
(* C10 as stated: the tag inferred for a new entry is one of the three     *)
(* recognized tags (shift-jis, utf-8, latin-1), and a pure-ASCII base name *)
(* is tagged utf-8.                                                        *)
(***************************************************************************)
PureAscii(text) == \A i \in DOMAIN text : text[i] < 128

BaseOf(e) == SubSeq(e.vertex_shader_file, 1, Len(e.vertex_shader_file) - Len(VsSuffix))

C10_TagIsOneOfThree ==
    pc = "pack" =>
        \A i \in DOMAIN Cur.new_shaders :
            LET e == Cur.new_shaders[i] IN
            /\ e.encoding \in {"shift-jis", "utf-8", "latin-1"}
            /\ PureAscii(BaseOf(e)) => e.encoding = "utf-8"

(***************************************************************************)
(* C10 amended: the tag inferred for a new entry is one of ascii,          *)
(* shift-jis, utf-8 and latin-1; a pure-ASCII base name is tagged ascii,   *)
(* and no other base name is.                                              *)
(***************************************************************************)
C10_TagIsOneOfFour ==
    pc = "pack" =>
        \A i \in DOMAIN Cur.new_shaders :
            LET e == Cur.new_shaders[i] IN
            /\ e.encoding \in {"ascii", "shift-jis", "utf-8", "latin-1"}
            /\ PureAscii(BaseOf(e)) <=> e.encoding = "ascii"

C10_Witness ==
    /\ pc = "pack"
    /\ \E i, j \in DOMAIN Cur.new_shaders :
          /\ PureAscii(BaseOf(Cur.new_shaders[i]))
          /\ Cur.new_shaders[i].encoding = "ascii"
          /\ ~PureAscii(BaseOf(Cur.new_shaders[j]))
          /\ Cur.new_shaders[j].encoding = "shift-jis"

(***************************************************************************)
(* C11: after unpack of any well-formed container completes, for every     *)
(* entry of the persisted index the file named by its vertex_shader_file   *)
(* holds exactly that record's decoded vertex bytes and the file named by  *)
(* its pixel_shader_file holds exactly that record's decoded pixel bytes,  *)
(* also when two records have raw names that sanitize to the same safe     *)
(* file name (no later record overwrites an earlier record's blob files).  *)
(***************************************************************************)
(* The records of a well-formed buffer from offset on, as unpack reads     *)
(* them.                                                                   *)
RECURSIVE ParsedFrom(_, _)
ParsedFrom(data, offset) ==
    IF ~(offset < Len(data)) THEN <<>>
    ELSE LET r == read_record(data, offset)
         IN  <<r.val>> \o ParsedFrom(data, r.val.offset)

C11_BlobFilesHoldOwnRecord ==
    ( /\ JustRan("unpack", "ok")
      /\ WellFormed(Cur.pre.fsop.data) )
    => LET recs == ParsedFrom(Cur.pre.fsop.data, 0) IN
       /\ Len(metadata.shaders) = Len(recs)
       /\ \A i \in DOMAIN recs :
             /\ dir[metadata.shaders[i].vertex_shader_file] = recs[i].vs_data
             /\ dir[metadata.shaders[i].pixel_shader_file] = recs[i].ps_data

====
